---------------------------- MODULE Spec2Model ----------------------------
(***************************************************************************)
(* Model of the gutter-theory backend (backend/app): the in-memory         *)
(* LobbyStore, the ConnectionManager, the websocket protocol loop and the  *)
(* hit resolution.                                                          *)
(*                                                                         *)
(* Units.  Python floats are modelled by scaled integers:                   *)
(*   latitude / longitude   micro-degrees   (0.0001 deg  = 100)             *)
(*   distances, ranges      millimetres     (40 m        = 40000)           *)
(*   headings, bearings     milli-degrees   (18 deg      = 18000)           *)
(*   timestamps             whole seconds since the process started         *)
(* A Python dict is a sequence of its values in insertion order, keys       *)
(* unique: replacing a key keeps its place, a new key is appended.          *)
(***************************************************************************)
EXTENDS Integers, Sequences, FiniteSets, TLC

VARIABLES
    lobbies,    \* LobbyStore._lobbies : code -> Lobby
    now,        \* the wall clock, datetime.now(timezone.utc)
    ret,        \* the Store call that has just returned: its name, arguments,
                \* result, the ids its sweep popped, and whether pid was in the
                \* roster when it was called; cleared when the clock advances
    shot,       \* a call of _resolve_hit: its arguments and, once it has run,
                \* its result
    reg,        \* ConnectionManager._connections : code -> (player id -> socket)
    conn,       \* per websocket connection: where websocket_endpoint stands and
                \* its locals
    alive,      \* per websocket: accepted and not closed by either side
    outbox      \* per websocket: the events delivered to it, in order

storeVars == <<lobbies, now, ret>>
wsVars == <<reg, conn, alive, outbox>>
vars == <<lobbies, now, ret, shot, reg, conn, alive, outbox>>

---------------------------------------------------------------------------
(* Program constants                                                       *)

MAX_PLAYERS == 16
STALE_AFTER == 10
CODE_LEN == 4

\* string.ascii_uppercase + string.digits
Alphabet ==
    << "A", "B", "C", "D", "E", "F", "G", "H", "I", "J", "K", "L", "M",
       "N", "O", "P", "Q", "R", "S", "T", "U", "V", "W", "X", "Y", "Z",
       "0", "1", "2", "3", "4", "5", "6", "7", "8", "9" >>

AlphabetSet == {Alphabet[i] : i \in 1..Len(Alphabet)}

---------------------------------------------------------------------------
(* Bounds of the model                                                     *)

MaxTime == 11        \* the clock stops advancing here
MaxLobbies == 2      \* create_lobby is not called beyond this many lobbies

MaxMsgs == 1         \* frames read off the websockets in one run
ExtraPlayers == 1    \* identities beyond MAX_PLAYERS that clients use in SpecCap

TickSteps == {10, 11}
PlayerIds == {1, 2}
Names == {"ann"}
LobbyNames == {"arena"}
Modes == {"ffa"}

\* Outcomes of random.choices(alphabet, k=4) that the model draws.
DrawIdx == {1, 36}
DrawnCodes == {[k \in 1..CODE_LEN |-> Alphabet[f[k]]] : f \in [1..CODE_LEN -> DrawIdx]}
FewCodes == {[k \in 1..CODE_LEN |-> "A"], [k \in 1..CODE_LEN |-> "9"]}

---------------------------------------------------------------------------
(* utils.py: location bucketing                                            *)

None == [kind |-> "None"]
ClientZone == [kind |-> "client"]

Abs(x) == IF x < 0 THEN 0 - x ELSE x

\* round(x, 3) of a coordinate in degrees, on micro-degrees: the nearest
\* multiple of 1000, in units of 0.001 degrees.
round3(x) == IF x < 0 THEN 0 - ((500 - x) \div 1000) ELSE (x + 500) \div 1000

zone_key(lat, lon) == [kind |-> "key", lat_bucket |-> round3(lat), lon_bucket |-> round3(lon)]

zone_label(lat, lon) ==
    [kind |-> "GRID", ring |-> (((Abs(lat) \div 1000) + (Abs(lon) \div 1000)) % 9) + 1]

\* Python's `a or b` on an Optional[str].
Falsy(v) == v = None
OrElse(v, w) == IF Falsy(v) THEN w ELSE v

---------------------------------------------------------------------------
(* utils.py: haversine_m, bearing_deg, heading_delta.  The trigonometry is  *)
(* tabulated: for the positions the model uses, DistTable and BearingTable  *)
(* hold what haversine_m and bearing_deg return (radius 6371000 m), rounded  *)
(* to the millimetre and the milli-degree.  Row and column i are Points[i].  *)

Points ==
    << [lat |-> 0, lon |-> 0], [lat |-> 0, lon |-> 100], [lat |-> 0, lon |-> 200],
       [lat |-> 0, lon |-> 500], [lat |-> 45, lon |-> 0], [lat |-> 0, lon |-> -100],
       [lat |-> 1600, lon |-> -500] >>

PointIdx(lat, lon) == CHOOSE i \in 1..Len(Points) : Points[i] = [lat |-> lat, lon |-> lon]

DistTable ==
    << <<0, 11119, 22239, 55597, 5004, 11119, 186397>>,
       <<11119, 0, 11119, 44478, 12193, 22239, 190010>>,
       <<22239, 11119, 0, 33358, 22795, 33358, 194194>>,
       <<55597, 44478, 33358, 0, 55822, 66717, 209802>>,
       <<5004, 12193, 22795, 55822, 0, 12193, 181627>>,
       <<11119, 22239, 33358, 66717, 12193, 0, 183387>>,
       <<186397, 190010, 194194, 209802, 181627, 183387, 0>> >>

BearingTable ==
    << <<0, 90000, 90000, 90000, 0, 270000, 342646>>,
       <<270000, 0, 90000, 90000, 294228, 270000, 339444>>,
       <<270000, 270000, 0, 90000, 282680, 270000, 336371>>,
       <<270000, 270000, 270000, 0, 275143, 270000, 327995>>,
       <<180000, 114228, 102680, 95143, 0, 245772, 342175>>,
       <<90000, 90000, 90000, 90000, 65772, 0, 345964>>,
       <<162646, 159444, 156371, 147995, 162175, 165964, 0>> >>

haversine_m(lat1, lon1, lat2, lon2) == DistTable[PointIdx(lat1, lon1)][PointIdx(lat2, lon2)]

bearing_deg(lat1, lon1, lat2, lon2) == BearingTable[PointIdx(lat1, lon1)][PointIdx(lat2, lon2)]

heading_delta(a, b) ==
    LET diff == Abs(a - b) % 360000
    IN  IF diff > 180000 THEN 360000 - diff ELSE diff

---------------------------------------------------------------------------
(* main.py: _resolve_hit                                                   *)

lock_angle == 18

NoTarget == 0

\* list.sort(key=...) is stable: insertion of each item after the items that
\* are not greater.
RECURSIVE InsertByDistance(_, _)
InsertByDistance(sorted, item) ==
    IF sorted = <<>> THEN <<item>>
    ELSE IF item.distance < Head(sorted).distance
         THEN <<item>> \o sorted
         ELSE <<Head(sorted)>> \o InsertByDistance(Tail(sorted), item)

RECURSIVE SortByDistance(_)
SortByDistance(items) ==
    IF items = <<>> THEN <<>>
    ELSE InsertByDistance(SortByDistance(SubSeq(items, 1, Len(items) - 1)), items[Len(items)])

Unsorted(items) == items

\* candidates.sort(key=lambda item: item[1])
sort_candidates(items) == SortByDistance(items)

\* The loop over players: the (id, distance) of every player it appends.
RECURSIVE Candidates(_, _, _, _, _)
Candidates(shooter, players, heading, range_m, target_id) ==
    IF players = <<>> THEN <<>>
    ELSE LET player == Head(players)
             rest == Candidates(shooter, Tail(players), heading, range_m, target_id)
             distance == haversine_m(shooter.lat, shooter.lon, player.lat, player.lon)
             bearing == bearing_deg(shooter.lat, shooter.lon, player.lat, player.lon)
         IN  IF player.id = shooter.id THEN rest
             ELSE IF target_id # NoTarget /\ player.id # target_id THEN rest
             ELSE IF distance > range_m THEN rest
             ELSE IF heading_delta(heading, bearing) <= lock_angle * 1000
                  THEN <<[id |-> player.id, distance |-> distance]>> \o rest
                  ELSE rest

resolve_hit(shooter, players, heading, range_m, target_id) ==
    LET candidates == Candidates(shooter, players, heading, range_m, target_id)
    IN  IF candidates = <<>> THEN None ELSE sort_candidates(candidates)[1]

---------------------------------------------------------------------------
(* state.py: Player, Lobby and the dict operations used on Lobby.players   *)

Player(id, name, lat, lon, heading, zk, zl, last_seen) ==
    [id |-> id, name |-> name, lat |-> lat, lon |-> lon, heading |-> heading,
     zone_key |-> zk, zone_label |-> zl, last_seen |-> last_seen]

\* Player.to_state copies every field.
to_state(p) ==
    [id |-> p.id, name |-> p.name, lat |-> p.lat, lon |-> p.lon, heading |-> p.heading,
     zone_key |-> p.zone_key, zone_label |-> p.zone_label, last_seen |-> p.last_seen]

Ids(players) == {players[i].id : i \in 1..Len(players)}
HasKey(players, pid) == pid \in Ids(players)
Entry(players, pid) == players[CHOOSE i \in 1..Len(players) : players[i].id = pid]

\* players[pid] = rec
dict_set(players, rec) ==
    IF HasKey(players, rec.id)
    THEN [i \in 1..Len(players) |-> IF players[i].id = rec.id THEN rec ELSE players[i]]
    ELSE Append(players, rec)

\* players.pop(pid, None)
dict_pop(players, pid) == SelectSeq(players, LAMBDA p : p.id # pid)

Stale(p, t) == t - p.last_seen > STALE_AFTER

StaleGE(p, t) == t - p.last_seen >= STALE_AFTER

prune_ge(players, t) == SelectSeq(players, LAMBDA p : ~StaleGE(p, t))

\* LobbyStore._prune_stale_locked: the roster without its stale entries.
prune_stale_locked(players, t) == SelectSeq(players, LAMBDA p : ~Stale(p, t))

WithPlayers(L, code, players) == [L EXCEPT ![code].players = players]

\* What a call leaves: the store, the outcome, the returned value and the ids
\* the staleness sweep popped during the call (its local `stale`).
ResultSwept(L, res, val, swept) == [lobbies |-> L, res |-> res, val |-> val, swept |-> swept]

Result(L, res, val) == ResultSwept(L, res, val, {})

---------------------------------------------------------------------------
(* state.py: LobbyStore.  Every method runs under the store lock with no   *)
(* await inside, so each is one atomic step.  A method is an operator from  *)
(* the store and its arguments to the new store, the outcome ("ok",         *)
(* "None" for a returned None, or the raised exception) and the returned    *)
(* value.                                                                   *)

accepts_any(L, code) == TRUE

\* LobbyStore._generate_code: the loop returns the first draw that is not a
\* live code.
generate_code_accepts(L, code) == code \notin DOMAIN L

create_lobby(L, code, name, mode, host_id, host_name, t) ==
    LET lobby == [id |-> Cardinality(DOMAIN L) + 1, code |-> code, name |-> name,
                  mode |-> mode,
                  players |-> <<Player(host_id, host_name, 0, 0, 0, None, None, t)>>]
    IN  Result([c \in DOMAIN L \cup {code} |-> IF c = code THEN lobby ELSE L[c]],
               "ok", <<>>)

get_lobby(L, code) ==
    IF code \in DOMAIN L THEN Result(L, "ok", <<>>) ELSE Result(L, "None", <<>>)

list_players(L, code, t) ==
    IF code \notin DOMAIN L
    THEN Result(L, "ok", <<>>)
    ELSE LET kept == prune_stale_locked(L[code].players, t)
         IN  ResultSwept(WithPlayers(L, code, kept), "ok",
                         [i \in 1..Len(kept) |-> to_state(kept[i])],
                         Ids(L[code].players) \ Ids(kept))

join_lobby(L, code, player_id, name, t) ==
    IF code \notin DOMAIN L
    THEN Result(L, "None", <<>>)
    ELSE IF Len(L[code].players) >= MAX_PLAYERS
         THEN Result(L, "lobby_full", <<>>)
         ELSE Result(WithPlayers(L, code,
                        dict_set(L[code].players,
                                 Player(player_id, name, 0, 0, 0, None, None, t))),
                     "ok", <<>>)

leave_lobby_strict(L, code, player_id) ==
    IF code \notin DOMAIN L
    THEN Result(L, "None", <<>>)
    ELSE IF HasKey(L[code].players, player_id)
         THEN Result(WithPlayers(L, code, dict_pop(L[code].players, player_id)), "ok", <<>>)
         ELSE Result(L, "KeyError", <<>>)

leave_lobby(L, code, player_id) ==
    IF code \notin DOMAIN L
    THEN Result(L, "None", <<>>)
    ELSE Result(WithPlayers(L, code, dict_pop(L[code].players, player_id)), "ok", <<>>)

upsert_presence_members_only(L, code, player_id, name, lat, lon, heading, zk, zl, t) ==
    IF code \notin DOMAIN L \/ ~HasKey(L[code].players, player_id)
    THEN Result(L, "None", <<>>)
    ELSE LET rec == Player(player_id, name, lat, lon, heading,
                           OrElse(zk, zone_key(lat, lon)),
                           OrElse(zl, zone_label(lat, lon)), t)
             kept == prune_stale_locked(dict_set(L[code].players, rec), t)
         IN  ResultSwept(WithPlayers(L, code, kept), "ok",
                         <<to_state(Entry(kept, player_id))>>,
                         Ids(L[code].players) \ Ids(kept))

\* The clock is read at line 140 and again in the sweep at line 152; the
\* model gives both reads the same value, so the entry just written is
\* never stale in the sweep of the same call.
upsert_presence(L, code, player_id, name, lat, lon, heading, zk, zl, t) ==
    IF code \notin DOMAIN L
    THEN Result(L, "None", <<>>)
    ELSE LET rec == Player(player_id, name, lat, lon, heading,
                           OrElse(zk, zone_key(lat, lon)),
                           OrElse(zl, zone_label(lat, lon)), t)
             kept == prune_stale_locked(dict_set(L[code].players, rec), t)
             swept == (Ids(L[code].players) \cup {player_id}) \ Ids(kept)
         IN  IF HasKey(kept, player_id)
             THEN ResultSwept(WithPlayers(L, code, kept), "ok",
                              <<to_state(Entry(kept, player_id))>>, swept)
             ELSE ResultSwept(WithPlayers(L, code, kept), "KeyError", <<>>, swept)

---------------------------------------------------------------------------
(* state.py: ConnectionManager.  A room is a dict player id -> socket, a    *)
(* sequence of [id, sock] in insertion order; a socket is named by the      *)
(* connection it belongs to.                                                *)

ConnIds == {1, 2}

RoomOfAnyLobby(R, code) ==
    IF DOMAIN R = {} THEN <<>> ELSE R[CHOOSE k \in DOMAIN R : TRUE]

\* self._connections.get(code, {})
Room(R, code) == IF code \in DOMAIN R THEN R[code] ELSE <<>>

\* ConnectionManager.connect
fabric_connect(R, code, player_id, socket) ==
    [c \in DOMAIN R \cup {code} |->
        IF c = code THEN dict_set(Room(R, code), [id |-> player_id, sock |-> socket])
        ELSE R[c]]

\* ConnectionManager.disconnect
fabric_disconnect(R, code, player_id) ==
    IF Room(R, code) = <<>> THEN R ELSE [R EXCEPT ![code] = dict_pop(@, player_id)]

NoExclude == 0


\* ConnectionManager.broadcast: the sockets of the snapshot it sends to, in
\* order.
broadcast_recipients(room, exclude) ==
    LET kept == SelectSeq(room, LAMBDA e : ~(exclude # NoExclude /\ e.id = exclude))
    IN  [i \in 1..Len(kept) |-> kept[i].sock]

\* ConnectionManager.send_to: the socket it sends to, if any.
send_to_socket(R, code, player_id) ==
    IF HasKey(Room(R, code), player_id)
    THEN <<Entry(Room(R, code), player_id).sock>>
    ELSE <<>>

---------------------------------------------------------------------------
(* main.py: websocket_endpoint.  The handler runs on one asyncio event      *)
(* loop: it is interleaved with the other handlers only where it awaits     *)
(* the network (accept, send_json, receive_json, close); the Store and the  *)
(* ConnectionManager locks are never held across an await, so acquiring     *)
(* them never suspends.  A step of the model is one network await followed  *)
(* by the code up to the next one.                                          *)

BadId == 0          \* a player_id that UUID() rejects
WsIds == {1, 2}
WsCode == [k \in 1..CODE_LEN |-> "A"]
WsCodes == FewCodes

Event(type, by, pid, text, players, to, distance) ==
    [type |-> type, by |-> by, pid |-> pid, text |-> text, players |-> players,
     to |-> to, distance |-> distance]

NoEvent == Event("none", 0, 0, "", <<>>, 0, 0)

ErrorEvent(by, message) == Event("error", by, 0, message, <<>>, 0, 0)

\* Inbound frames: {"type": ..., "payload": ...}.  valid: the payload passes
\* model_validate.
Inbound(type, valid, pid, p, heading, range_m, target_id) ==
    [type |-> type, valid |-> valid, pid |-> pid, p |-> p, heading |-> heading,
     range_m |-> range_m, target_id |-> target_id]

NoPresence == [lat |-> 0, lon |-> 0, heading |-> 0, zone_key |-> None, zone_label |-> None]
NoInbound == Inbound("none", TRUE, 0, NoPresence, 0, 0, NoTarget)

WsPresences ==
    {[lat |-> 0, lon |-> 100, heading |-> 90000, zone_key |-> None, zone_label |-> None]}

Frames ==
    {Inbound("presence", TRUE, pid, p, 0, 0, NoTarget) : pid \in WsIds, p \in WsPresences}
    \cup {Inbound("shot", TRUE, pid, NoPresence, 90000, 40000, NoTarget) : pid \in WsIds}
    \cup {Inbound("presence", FALSE, 0, NoPresence, 0, 0, NoTarget),
          Inbound("shot", FALSE, 0, NoPresence, 0, 0, NoTarget),
          Inbound("ping", TRUE, 0, NoPresence, 0, 0, NoTarget),
          Inbound("bogus", TRUE, 0, NoPresence, 0, 0, NoTarget)}

\* held: the locks (of the Store, of the ConnectionManager) the handler is
\* inside an `async with` of.
Local(pc, code, pid, n, msg, out, pending, after, players, hit, held) ==
    [pc |-> pc, code |-> code, pid |-> pid, n |-> n, msg |-> msg, out |-> out,
     pending |-> pending, after |-> after, players |-> players, hit |-> hit,
     held |-> held]

NewConn == Local("new", <<>>, 0, 0, NoInbound, NoEvent, <<>>, "none", <<>>, None, {})

WsInitOn(K) ==
    /\ reg = <<>>
    /\ conn = [c \in K |-> NewConn]
    /\ alive = [c \in K |-> FALSE]
    /\ outbox = [c \in K |-> <<>>]

WsInit == WsInitOn(ConnIds)

\* The labels where the handler awaits the network.
AwaitLabels == {"new", "send_error", "close", "bcast_send", "sendto_send", "recv", "closed"}

World(L, R, C, A) == [lobbies |-> L, reg |-> R, conn |-> C, alive |-> A]

Goto(S, c, pc) == [S EXCEPT !.conn[c].pc = pc]

\* `async with self._lock:` entered and left.  Every other method of the
\* Store and of the ConnectionManager is one `async with` block around a
\* body that sends nothing, entered and left within one operator of the
\* model; broadcast and send_to go on to send after theirs.
Acquire(S, c, lock) == [S EXCEPT !.conn[c].held = @ \cup {lock}]

KeepLock(S, c, lock) == S

Release(S, c, lock) == [S EXCEPT !.conn[c].held = @ \ {lock}]

\* No other handler is inside a lock: a handler that needs one can go on.
LocksFree(c) == \A d \in DOMAIN conn : d # c => conn[d].held = {}

\* manager.broadcast(code, message, exclude) up to its first send, then on
\* to `after`.
StartBroadcast(S, c, message, exclude, after) ==
    LET locked == Acquire(S, c, "fabric")
        copied == [locked EXCEPT
                      !.conn[c].pc = "bcast_next",
                      !.conn[c].out = message,
                      !.conn[c].pending =
                          broadcast_recipients(Room(locked.reg, locked.conn[c].code), exclude),
                      !.conn[c].after = after]
    IN  Release(copied, c, "fabric")

\* manager.send_to(code, player_uuid, message) up to its send, then on to
\* `after`.
StartSendTo(S, c, message, after) ==
    LET locked == Acquire(S, c, "fabric")
        found == [locked EXCEPT
                     !.conn[c].pc = "sendto_next",
                     !.conn[c].out = message,
                     !.conn[c].pending =
                         send_to_socket(locked.reg, locked.conn[c].code, locked.conn[c].pid),
                     !.conn[c].after = after]
    IN  Release(found, c, "fabric")

\* lines 103-108: player_uuid = UUID(player_id)
ParsePlayerId(S, c) ==
    IF S.conn[c].pid = BadId
    THEN [S EXCEPT !.conn[c].pc = "send_error",
                   !.conn[c].out = ErrorEvent(c, "bad_player_id")]
    ELSE Goto(S, c, "get_lobby")

SkipLobbyCheck(S, c) == Goto(S, c, "connect")

\* lines 110-114: lobby = await store.get_lobby(code)
CheckLobby(S, c) ==
    IF get_lobby(S.lobbies, S.conn[c].code).res = "None"
    THEN [S EXCEPT !.conn[c].pc = "send_error",
                   !.conn[c].out = ErrorEvent(c, "lobby_not_found")]
    ELSE Goto(S, c, "connect")

\* lines 116-117: manager.connect, then manager.broadcast(join, exclude=player_uuid)
Admit(S, c) ==
    LET me == S.conn[c]
    IN  StartBroadcast([S EXCEPT !.reg = fabric_connect(S.reg, me.code, me.pid, c)],
                       c, Event("join", c, me.pid, "", <<>>, 0, 0), me.pid, "list_state")

\* lines 118-126: store.list_players, then manager.send_to(state)
SendState(S, c, t) ==
    LET r == list_players(S.lobbies, S.conn[c].code, t)
    IN  StartSendTo([S EXCEPT !.lobbies = r.lobbies], c,
                    Event("state", c, 0, "", r.val, 0, 0), "recv")

SendsLeftBehind(S, c) == Goto(S, c, S.conn[c].after)

\* The send loop of broadcast, and send_to's `if not socket: return`.
NextSend(S, c) ==
    LET me == S.conn[c]
    IN  IF me.pending = <<>>
        THEN [S EXCEPT !.conn[c].pc = me.after,
                       !.conn[c].out = NoEvent,
                       !.conn[c].after = "none"]
        ELSE Goto(S, c, IF me.pc = "bcast_next" THEN "bcast_send" ELSE "sendto_send")

\* lines 131-134, 153-154, 191-203: the dispatch on msg_type; model_validate
\* raises on a payload of the wrong shape.
Dispatch(S, c) ==
    LET me == S.conn[c]
    IN  IF me.msg.type \in {"presence", "shot"} /\ ~me.msg.valid
        THEN Goto(S, c, "fault")
        ELSE IF me.msg.type = "presence" THEN Goto(S, c, "upsert")
        ELSE IF me.msg.type = "shot" THEN Goto(S, c, "list_shot")
        ELSE IF me.msg.type = "ping"
             THEN StartSendTo(S, c, Event("pong", c, 0, "", <<>>, 0, 0), "recv")
             ELSE StartSendTo(S, c, ErrorEvent(c, "unknown_message_type"), "recv")

PresenceExcludingSender(S, c, t) ==
    LET me == S.conn[c]
        r == upsert_presence(S.lobbies, me.code, me.msg.pid, "ann",
                             me.msg.p.lat, me.msg.p.lon, me.msg.p.heading,
                             me.msg.p.zone_key, me.msg.p.zone_label, t)
    IN  StartBroadcast([S EXCEPT !.lobbies = r.lobbies], c,
                       Event("presence", c, me.msg.pid, "", r.val, 0, 0), me.pid, "recv")

\* lines 136-151: store.upsert_presence, then manager.broadcast(presence)
HandlePresence(S, c, t) ==
    LET me == S.conn[c]
        r == upsert_presence(S.lobbies, me.code, me.msg.pid, "ann",
                             me.msg.p.lat, me.msg.p.lon, me.msg.p.heading,
                             me.msg.p.zone_key, me.msg.p.zone_label, t)
    IN  IF r.res = "ok"
        THEN StartBroadcast([S EXCEPT !.lobbies = r.lobbies], c,
                            Event("presence", c, me.msg.pid, "", r.val, 0, 0),
                            NoExclude, "recv")
        ELSE IF r.res = "None"
             THEN Goto([S EXCEPT !.lobbies = r.lobbies], c, "recv")
             ELSE Goto([S EXCEPT !.lobbies = r.lobbies], c, "fault")

ShotClosesAbsentShooter(S, c, t) ==
    LET me == S.conn[c]
        r == list_players(S.lobbies, me.code, t)
        S1 == [S EXCEPT !.lobbies = r.lobbies]
    IN  IF ~HasKey(r.val, me.msg.pid)
        THEN Goto(S1, c, "fault")
        ELSE StartBroadcast(
                 [S1 EXCEPT !.conn[c].hit =
                      resolve_hit(Entry(r.val, me.msg.pid), r.val, me.msg.heading,
                                  me.msg.range_m, me.msg.target_id)],
                 c, Event("shot", c, me.msg.pid, "", <<>>, 0, 0), NoExclude, "hit")

\* lines 155-176: store.list_players, the shooter lookup, _resolve_hit and
\* manager.broadcast(shot)
HandleShot(S, c, t) ==
    LET me == S.conn[c]
        r == list_players(S.lobbies, me.code, t)
        S1 == [S EXCEPT !.lobbies = r.lobbies]
    IN  IF ~HasKey(r.val, me.msg.pid)
        THEN StartSendTo(S1, c, ErrorEvent(c, "shooter_not_found"), "recv")
        ELSE StartBroadcast(
                 [S1 EXCEPT !.conn[c].hit =
                      resolve_hit(Entry(r.val, me.msg.pid), r.val, me.msg.heading,
                                  me.msg.range_m, me.msg.target_id)],
                 c, Event("shot", c, me.msg.pid, "", <<>>, 0, 0), NoExclude, "hit")

\* lines 177-189: if hit: manager.broadcast(hit)
HandleHit(S, c) ==
    LET me == S.conn[c]
    IN  IF me.hit # None
        THEN StartBroadcast([S EXCEPT !.conn[c].hit = None], c,
                            Event("hit", c, me.msg.pid, "", <<>>, me.hit.id,
                                  me.hit.distance),
                            NoExclude, "recv")
        ELSE Goto(S, c, "recv")

DisconnectWithoutLeave(S, c) ==
    LET me == S.conn[c]
    IN  StartBroadcast([S EXCEPT !.reg = fabric_disconnect(S.reg, me.code, me.pid)],
                       c, Event("leave", c, me.pid, "", <<>>, 0, 0), NoExclude, "return")

\* lines 205-208: except WebSocketDisconnect
OnDisconnect(S, c) ==
    LET me == S.conn[c]
        r == leave_lobby(S.lobbies, me.code, me.pid)
    IN  StartBroadcast([S EXCEPT !.reg = fabric_disconnect(S.reg, me.code, me.pid),
                                 !.lobbies = r.lobbies],
                       c, Event("leave", c, me.pid, "", <<>>, 0, 0), NoExclude, "return")

FaultDroppingParticipant(S, c) ==
    LET me == S.conn[c]
    IN  Goto([S EXCEPT !.reg = fabric_disconnect(S.reg, me.code, me.pid),
                       !.lobbies = leave_lobby(S.lobbies, me.code, me.pid).lobbies],
             c, "return")

\* lines 209-210: except Exception
OnFault(S, c) ==
    Goto([S EXCEPT !.reg = fabric_disconnect(S.reg, S.conn[c].code, S.conn[c].pid)],
         c, "return")

\* The handler returns and the server closes the socket.
Return(S, c) ==
    [S EXCEPT !.conn[c] = Local("closed", S.conn[c].code, S.conn[c].pid, S.conn[c].n,
                                S.conn[c].msg, NoEvent, <<>>, "none", <<>>, None,
                                S.conn[c].held),
              !.alive[c] = FALSE]

\* One piece of the handler that awaits nothing, from the label it stands at.
MicroStep(S, c, t) ==
    LET pc == S.conn[c].pc
    IN  CASE pc = "parse" -> ParsePlayerId(S, c)
          [] pc = "get_lobby" -> CheckLobby(S, c)
          [] pc = "connect" -> Admit(S, c)
          [] pc = "list_state" -> SendState(S, c, t)
          [] pc \in {"bcast_next", "sendto_next"} -> NextSend(S, c)
          [] pc = "dispatch" -> Dispatch(S, c)
          [] pc = "upsert" -> HandlePresence(S, c, t)
          [] pc = "list_shot" -> HandleShot(S, c, t)
          [] pc = "hit" -> HandleHit(S, c)
          [] pc = "disconnected" -> OnDisconnect(S, c)
          [] pc = "fault" -> OnFault(S, c)
          [] pc = "return" -> Return(S, c)

\* The handler's code from where it stands to its next network await.
RECURSIVE RunToAwait(_, _, _)
RunToAwait(S, c, t) ==
    IF S.conn[c].pc \in AwaitLabels THEN S ELSE RunToAwait(MicroStep(S, c, t), c, t)

Here == World(lobbies, reg, conn, alive)

Become(S) ==
    /\ lobbies' = S.lobbies
    /\ reg' = S.reg
    /\ conn' = S.conn
    /\ alive' = S.alive

\* socket.send_json(event): outbox logs the call, with ok: the socket was
\* open and the event went out (on a closed socket the call raises), and
\* seq: the number of the frame the sending handler was working on (0: its
\* admission).
Sent(event, ok, seq) == [event |-> event, ok |-> ok, seq |-> seq]

Deliver(sock, event) ==
    outbox' = [outbox EXCEPT ![sock] =
                   Append(@, Sent(event, alive[sock], conn[event.by].n))]

SendFailureSurfaces(S, c, ok, next) ==
    IF ok
    THEN [S EXCEPT !.conn[c].pc = next, !.conn[c].pending = Tail(@)]
    ELSE [S EXCEPT !.conn[c].pc = "fault", !.conn[c].pending = <<>>,
                   !.conn[c].out = NoEvent]

\* state.py lines 183-186 and 193-196: try: await socket.send_json(message)
\* except Exception: pass -- the caller goes on whether or not the send
\* went through (ok).
SendReturns(S, c, ok, next) ==
    [S EXCEPT !.conn[c].pc = next, !.conn[c].pending = Tail(@)]

\* lines 101-102: a client connects with (code, player_id) and is accepted.
Accept(c, codes, pids) ==
    /\ conn[c].pc = "new"
    /\ LocksFree(c)
    /\ \E code \in codes, pid \in pids :
         Become(RunToAwait([Here EXCEPT !.conn[c].pc = "parse",
                                        !.conn[c].code = code,
                                        !.conn[c].pid = pid,
                                        !.alive[c] = TRUE], c, now))
    /\ UNCHANGED <<now, ret, shot, outbox>>

\* lines 106 and 112: websocket.send_json(error) of the handshake, outside
\* any try: on a socket the peer has closed it raises and ends the handler.
SendError(c) ==
    /\ conn[c].pc = "send_error"
    /\ Deliver(c, conn[c].out)
    /\ Become(RunToAwait([Here EXCEPT !.conn[c].pc = IF alive[c] THEN "close" ELSE "return",
                                      !.conn[c].out = NoEvent], c, now))
    /\ UNCHANGED <<now, ret, shot>>

\* lines 107 and 113: websocket.close(code=1008); return
Close(c) ==
    /\ conn[c].pc = "close"
    /\ Become(RunToAwait(Goto(Here, c, "return"), c, now))
    /\ UNCHANGED <<now, ret, shot, outbox>>

\* state.py lines 183-186: one send of a broadcast; a failure is swallowed.
BroadcastSend(c) ==
    /\ conn[c].pc = "bcast_send"
    /\ Tail(conn[c].pending) = <<>> => LocksFree(c)
    /\ Deliver(Head(conn[c].pending), conn[c].out)
    /\ Become(RunToAwait(SendReturns(Here, c, alive[Head(conn[c].pending)], "bcast_next"),
                         c, now))
    /\ UNCHANGED <<now, ret, shot>>

\* state.py lines 193-196: the send of send_to; a failure is swallowed.
SendToSend(c) ==
    /\ conn[c].pc = "sendto_send"
    /\ Deliver(Head(conn[c].pending), conn[c].out)
    /\ Become(RunToAwait(SendReturns(Here, c, alive[Head(conn[c].pending)], "sendto_next"),
                         c, now))
    /\ UNCHANGED <<now, ret, shot>>

\* The frames the connections of K have read so far.
RECURSIVE FramesRead(_)
FramesRead(K) ==
    IF K = {} THEN 0
    ELSE LET c == CHOOSE x \in K : TRUE
         IN  conn[c].n + FramesRead(K \ {c})

\* line 130: receive_json returns a frame, one of `frames`, while fewer than
\* k have been read.
ReceiveFrom(c, k, frames) ==
    /\ conn[c].pc = "recv"
    /\ alive[c]
    /\ LocksFree(c)
    /\ FramesRead(DOMAIN conn) < k
    /\ \E m \in frames :
         Become(RunToAwait([Here EXCEPT !.conn[c].pc = "dispatch",
                                        !.conn[c].msg = m,
                                        !.conn[c].n = @ + 1], c, now))
    /\ UNCHANGED <<now, ret, shot, outbox>>

Receive(c) == ReceiveFrom(c, MaxMsgs, Frames)

\* line 130: receive_json raises on a frame that is not JSON.
ReceiveFault(c) ==
    /\ conn[c].pc = "recv"
    /\ alive[c]
    /\ LocksFree(c)
    /\ Become(RunToAwait(Goto(Here, c, "fault"), c, now))
    /\ UNCHANGED <<now, ret, shot, outbox>>

\* line 130: receive_json raises WebSocketDisconnect once the peer has closed.
ReceiveDisconnect(c) ==
    /\ conn[c].pc = "recv"
    /\ ~alive[c]
    /\ LocksFree(c)
    /\ Become(RunToAwait(Goto(Here, c, "disconnected"), c, now))
    /\ UNCHANGED <<now, ret, shot, outbox>>

\* The client closes its end.
PeerClose(c) ==
    /\ conn[c].pc \notin {"new", "closed"}
    /\ alive[c]
    /\ alive' = [alive EXCEPT ![c] = FALSE]
    /\ UNCHANGED <<lobbies, now, ret, shot, reg, conn, outbox>>

---------------------------------------------------------------------------
(* The Store driven by its callers: one action per LobbyStore method.      *)

\* Presence payloads clients send (lat, lon, heading, zone_key, zone_label).
Presences ==
    { [lat |-> 0, lon |-> 100, heading |-> 90000, zone_key |-> None, zone_label |-> None],
      [lat |-> 1600, lon |-> -500, heading |-> 0, zone_key |-> ClientZone,
       zone_label |-> ClientZone] }

Call(op, code, pid, arg, r) ==
    [op |-> op, code |-> code, pid |-> pid, arg |-> arg, res |-> r.res, val |-> r.val,
     swept |-> r.swept,
     had |-> code \in DOMAIN lobbies /\ HasKey(lobbies[code].players, pid)]

NoCall ==
    [op |-> "none", code |-> <<>>, pid |-> 0, arg |-> None, res |-> "none", val |-> <<>>,
     swept |-> {}, had |-> FALSE]

NoShot == [pc |-> "none"]

Init ==
    /\ lobbies = <<>>
    /\ now = 0
    /\ ret = NoCall
    /\ shot = NoShot
    /\ WsInit

Apply(op, code, pid, arg, r) ==
    /\ lobbies' = r.lobbies
    /\ ret' = Call(op, code, pid, arg, r)
    /\ UNCHANGED <<now, shot, reg, conn, alive, outbox>>

CreateLobby(codes, ids) ==
    /\ Cardinality(DOMAIN lobbies) < MaxLobbies
    /\ \E code \in codes, name \in LobbyNames, mode \in Modes, host \in ids, hn \in Names :
         /\ generate_code_accepts(lobbies, code)
         /\ Apply("create_lobby", code, host, None,
                  create_lobby(lobbies, code, name, mode, host, hn, now))

GetLobby(codes) ==
    \E code \in codes : Apply("get_lobby", code, 0, None, get_lobby(lobbies, code))

ListPlayers(codes) ==
    \E code \in codes : Apply("list_players", code, 0, None, list_players(lobbies, code, now))

JoinLobby(codes, ids) ==
    \E code \in codes, pid \in ids, name \in Names :
        Apply("join_lobby", code, pid, None, join_lobby(lobbies, code, pid, name, now))

LeaveLobby(codes, ids) ==
    \E code \in codes, pid \in ids :
        Apply("leave_lobby", code, pid, None, leave_lobby(lobbies, code, pid))

UpsertPresence(codes, ids) ==
    \E code \in codes, pid \in ids, name \in Names, p \in Presences :
        Apply("upsert_presence", code, pid, p,
              upsert_presence(lobbies, code, pid, name, p.lat, p.lon, p.heading,
                              p.zone_key, p.zone_label, now))

Tick ==
    \E d \in TickSteps :
        /\ now + d <= MaxTime
        /\ now' = now + d
        /\ ret' = NoCall
        /\ UNCHANGED <<lobbies, shot, reg, conn, alive, outbox>>

Next ==
    \/ CreateLobby(FewCodes, PlayerIds)
    \/ GetLobby(FewCodes)
    \/ ListPlayers(FewCodes)
    \/ JoinLobby(FewCodes, PlayerIds)
    \/ LeaveLobby(FewCodes, PlayerIds)
    \/ UpsertPresence(FewCodes, PlayerIds)
    \/ Tick

Spec == Init /\ [][Next]_vars


---------------------------------------------------------------------------
(* The websocket handlers on their own.                                     *)

\* The run starts with the lobby WsCode created by host 1.
InitWS ==
    /\ lobbies = create_lobby(<<>>, WsCode, "arena", "ffa", 1, "ann", 0).lobbies
    /\ now = 0
    /\ ret = NoCall
    /\ shot = NoShot
    /\ WsInit

NextWS ==
    \E c \in ConnIds :
        \/ Accept(c, WsCodes, WsIds \cup {BadId})
        \/ SendError(c)
        \/ Close(c)
        \/ BroadcastSend(c)
        \/ SendToSend(c)
        \/ Receive(c)
        \/ ReceiveFault(c)
        \/ ReceiveDisconnect(c)
        \/ PeerClose(c)

SpecWS == InitWS /\ [][NextWS]_vars

\* Admissions alone: three connections to the one lobby, no frames.
AdmitConns == {1, 2, 3}

InitAdmit ==
    /\ lobbies = create_lobby(<<>>, WsCode, "arena", "ffa", 1, "ann", 0).lobbies
    /\ now = 0
    /\ ret = NoCall
    /\ shot = NoShot
    /\ WsInitOn(AdmitConns)

NextAdmit ==
    \E c \in AdmitConns :
        \/ Accept(c, {WsCode}, WsIds)
        \/ BroadcastSend(c)
        \/ SendToSend(c)
        \/ ReceiveFault(c)
        \/ ReceiveDisconnect(c)
        \/ PeerClose(c)

SpecAdmit == InitAdmit /\ [][NextAdmit]_vars

\* The websocket handlers on a lobby of two placed players: the host at
\* (0, 0) and player 2, whose presence put it 11 m to the east.
InitShot ==
    /\ lobbies = upsert_presence(
                     create_lobby(<<>>, WsCode, "arena", "ffa", 1, "ann", 0).lobbies,
                     WsCode, 2, "ann", 0, 100, 90000, None, None, 0).lobbies
    /\ now = 0
    /\ ret = NoCall
    /\ shot = NoShot
    /\ WsInit

SpecShot == InitShot /\ [][NextWS]_vars

\* The websocket handlers with the clock running, so that rosters are swept
\* under registered connections: admissions to the one lobby, the frames the
\* message loop has a branch for, and every way a connection ends.
StaleFrames ==
    {Inbound("presence", TRUE, 2, CHOOSE p \in WsPresences : TRUE, 0, 0, NoTarget),
     Inbound("shot", TRUE, 1, NoPresence, 90000, 40000, NoTarget),
     Inbound("ping", TRUE, 0, NoPresence, 0, 0, NoTarget)}

NextStale ==
    \/ \E c \in ConnIds :
          \/ Accept(c, {WsCode}, WsIds)
          \/ BroadcastSend(c)
          \/ SendToSend(c)
          \/ ReceiveFrom(c, MaxMsgs, StaleFrames)
          \/ ReceiveFault(c)
          \/ ReceiveDisconnect(c)
          \/ PeerClose(c)
    \/ Tick

SpecStale == InitWS /\ [][NextStale]_vars

\* Two connections to the lobby of two placed players, with one frame more
\* than SpecWS reads, so that one connection reads two.
OrderMsgs == MaxMsgs + 1

OrderFrames ==
    {Inbound("shot", TRUE, 1, NoPresence, 90000, 40000, NoTarget),
     Inbound("presence", TRUE, 2, CHOOSE p \in WsPresences : TRUE, 0, 0, NoTarget),
     Inbound("ping", TRUE, 0, NoPresence, 0, 0, NoTarget)}

NextOrder ==
    \E c \in ConnIds :
        \/ Accept(c, {WsCode}, WsIds)
        \/ BroadcastSend(c)
        \/ SendToSend(c)
        \/ ReceiveFrom(c, OrderMsgs, OrderFrames)
        \/ ReceiveFault(c)

SpecOrder == InitShot /\ [][NextOrder]_vars

\* Two lobbies, both created by identity 1 and not heard from since, so that
\* the first sweep of each takes its host off the roster.  The Store's
\* callers and the websocket handlers run side by side; connections are
\* admitted to either lobby as identity 1, so that the same identity is
\* registered in both.
IsoCode == [k \in 1..CODE_LEN |-> "9"]

InitIso ==
    /\ lobbies = create_lobby(
                     create_lobby(<<>>, WsCode, "arena", "ffa", 1, "ann", 0).lobbies,
                     IsoCode, "arena", "ffa", 1, "ann", 0).lobbies
    /\ now = STALE_AFTER + 1
    /\ ret = NoCall
    /\ shot = NoShot
    /\ WsInit

IsoFrames ==
    {Inbound("presence", TRUE, 1, CHOOSE p \in WsPresences : TRUE, 0, 0, NoTarget),
     Inbound("shot", TRUE, 1, NoPresence, 90000, 40000, NoTarget)}

NextIso ==
    \/ \E c \in ConnIds :
          \/ Accept(c, {WsCode, IsoCode}, {1})
          \/ BroadcastSend(c)
          \/ SendToSend(c)
          \/ ReceiveFrom(c, MaxMsgs, IsoFrames)
          \/ ReceiveFault(c)
    \/ ListPlayers({WsCode, IsoCode})
    \/ JoinLobby({WsCode, IsoCode}, {2})
    \/ LeaveLobby({WsCode, IsoCode}, {2})

SpecIso == InitIso /\ [][NextIso]_vars

---------------------------------------------------------------------------
(* The Store around its capacity.  The run starts from a lobby that         *)
(* create_lobby and k-1 joins have filled with the identities 1..k at time  *)
(* 0, and clients go on with identities at and beyond MAX_PLAYERS.          *)

CapIds == MAX_PLAYERS..(MAX_PLAYERS + ExtraPlayers)
CapCode == [k \in 1..CODE_LEN |-> "A"]

FilledLobby(k) ==
    [id |-> 1, code |-> CapCode, name |-> "arena", mode |-> "ffa",
     players |-> [i \in 1..k |-> Player(i, "ann", 0, 0, 0, None, None, 0)]]

InitCap ==
    /\ \E k \in {MAX_PLAYERS - 1, MAX_PLAYERS} :
           lobbies = [c \in {CapCode} |-> FilledLobby(k)]
    /\ now = 0
    /\ ret = NoCall
    /\ shot = NoShot
    /\ WsInit

NextCap ==
    \/ ListPlayers(FewCodes)
    \/ JoinLobby(FewCodes, CapIds)
    \/ LeaveLobby(FewCodes, CapIds)
    \/ UpsertPresence(FewCodes, CapIds)
    \/ Tick

SpecCap == InitCap /\ [][NextCap]_vars

---------------------------------------------------------------------------
(* The Store creating lobbies, with every code the model draws.             *)

HostIds == {1}
GuestIds == {2}

NextCodes ==
    \/ CreateLobby(DrawnCodes, HostIds)
    \/ JoinLobby(FewCodes, GuestIds)
    \/ LeaveLobby(FewCodes, GuestIds)

SpecCodes == Init /\ [][NextCodes]_vars

---------------------------------------------------------------------------
(* _resolve_hit on its own: every roster of up to three players at the      *)
(* positions HitPoints, every shooter in it, and the headings, ranges and    *)
(* targets below.                                                            *)

HitIds == {1, 2, 3}
HitPoints == {1, 2, 3, 5}
Headings == {90000, 72000, 71000, 0, -270000}
Ranges == {40000, 11119, 5000}
Targets == {NoTarget} \cup HitIds \cup {9}

DistinctIds(players) == \A i, j \in 1..Len(players) : players[i].id = players[j].id => i = j

HitRosters ==
    {ps \in UNION {[1..n -> HitIds \X HitPoints] : n \in 1..Cardinality(HitIds)} :
        \A i, j \in 1..Len(ps) : ps[i][1] = ps[j][1] => i = j}

StateAt(id, pt) == to_state(Player(id, "ann", Points[pt].lat, Points[pt].lon, 0, None, None, 0))

InitHit ==
    /\ lobbies = <<>>
    /\ now = 0
    /\ ret = NoCall
    /\ WsInit
    /\ \E ps \in HitRosters, h \in Headings, r \in Ranges, tg \in Targets :
         \E s \in 1..Len(ps) :
            shot = [pc |-> "call",
                    players |-> [i \in 1..Len(ps) |-> StateAt(ps[i][1], ps[i][2])],
                    shooter |-> StateAt(ps[s][1], ps[s][2]),
                    heading |-> h, range_m |-> r, target_id |-> tg]

ResolveHit ==
    /\ shot.pc = "call"
    /\ shot' = [pc |-> "done", players |-> shot.players, shooter |-> shot.shooter,
                heading |-> shot.heading, range_m |-> shot.range_m,
                target_id |-> shot.target_id,
                hit |-> resolve_hit(shot.shooter, shot.players, shot.heading,
                                    shot.range_m, shot.target_id)]
    /\ UNCHANGED <<storeVars, wsVars>>

NextHit == ResolveHit

SpecHit == InitHit /\ [][NextHit]_vars

---------------------------------------------------------------------------
(* Claims about the Store                                                  *)

\* A step that is a Store call: the clock stands still and ret' is the call.
CallStep(op) == now' = now /\ ret'.op = op

Roster(code) == lobbies[code].players

\* C1 (as claimed): on a known lobby a join is admitted whenever the roster
\* size is below 16, is rejected with lobby_full exactly when the size is
\* 16, and a rejected join leaves the store unchanged.
C1_JoinFullExactlyAt16 ==
    [][ (CallStep("join_lobby") /\ ret'.code \in DOMAIN lobbies) =>
            LET n == Len(Roster(ret'.code))
            IN  /\ (n < 16) => (ret'.res = "ok" /\ HasKey(lobbies'[ret'.code].players, ret'.pid))
                /\ (ret'.res = "lobby_full") <=> (n = 16)
                /\ (ret'.res = "lobby_full") => (lobbies' = lobbies) ]_vars

\* C2 (as claimed): in every reachable state every lobby's roster holds at
\* most 16 participants.
C2_RosterAtMost16 == \A c \in DOMAIN lobbies : Len(Roster(c)) <= 16

\* C3: when list_players or upsert_presence runs on a known lobby, every
\* participant older than 10 seconds (other than the identity that call
\* upserts) is absent from the returned value and from the roster after the
\* call, and every participant aged at most 10 seconds stays in the roster
\* (unchanged unless it is the upserted identity) and in what list_players
\* returns.
C3_SweepRemovesExactlyStale ==
    [][ ((CallStep("list_players") \/ CallStep("upsert_presence"))
            /\ ret'.code \in DOMAIN lobbies) =>
            LET before == Roster(ret'.code)
                after == lobbies'[ret'.code].players
            IN  \A i \in 1..Len(before) :
                    LET p == before[i]
                        upserted == ret'.op = "upsert_presence" /\ p.id = ret'.pid
                    IN  /\ (now - p.last_seen > 10 /\ ~upserted) =>
                              (p.id \notin Ids(after) /\ p.id \notin Ids(ret'.val))
                        /\ (now - p.last_seen <= 10) =>
                              /\ p.id \in Ids(after)
                              /\ ~upserted => Entry(after, p.id) = p
                              /\ ret'.op = "list_players" => to_state(p) \in
                                     {ret'.val[j] : j \in 1..Len(ret'.val)} ]_vars

\* C3 witness: a list_players call that swept somebody and kept somebody.
C3_Witness ==
    /\ ret.op = "list_players"
    /\ ret.swept # {}
    /\ ret.val # <<>>

\* C4: upsert_presence on a known lobby always succeeds, whatever the roster
\* size and whether or not the identity was in the roster: afterwards the
\* roster has an entry for the identity with the supplied position and
\* heading, and the call returns that entry's snapshot; on an unknown lobby
\* it returns None and the store is unchanged.
C4_UpsertAlwaysSucceeds ==
    [][ CallStep("upsert_presence") =>
            IF ret'.code \in DOMAIN lobbies
            THEN LET after == lobbies'[ret'.code].players
                 IN  /\ ret'.res = "ok"
                     /\ HasKey(after, ret'.pid)
                     /\ Entry(after, ret'.pid).lat = ret'.arg.lat
                     /\ Entry(after, ret'.pid).lon = ret'.arg.lon
                     /\ Entry(after, ret'.pid).heading = ret'.arg.heading
                     /\ ret'.val = <<to_state(Entry(after, ret'.pid))>>
            ELSE ret'.res = "None" /\ lobbies' = lobbies ]_vars

\* C4 witness: an upsert for an identity that was not in a roster of 16 has
\* returned a snapshot and the roster holds 17.
C4_Witness ==
    /\ ret.op = "upsert_presence"
    /\ ret.res = "ok"
    /\ ~ret.had
    /\ Len(Roster(ret.code)) = MAX_PLAYERS + 1

\* C5: leave_lobby never raises; on an unknown lobby it returns None and
\* changes nothing; on a known lobby it changes no other lobby, changes
\* nothing at all when the identity is not in the roster, and a second leave
\* of the same identity gives the store the first one gave.
C5_LeaveIdempotent ==
    [][ CallStep("leave_lobby") =>
            /\ ret'.res \in {"ok", "None"}
            /\ (ret'.code \notin DOMAIN lobbies) => (ret'.res = "None" /\ lobbies' = lobbies)
            /\ (ret'.code \in DOMAIN lobbies) =>
                  /\ ret'.res = "ok"
                  /\ DOMAIN lobbies' = DOMAIN lobbies
                  /\ \A c \in DOMAIN lobbies \ {ret'.code} : lobbies'[c] = lobbies[c]
                  /\ ~HasKey(Roster(ret'.code), ret'.pid) => lobbies' = lobbies
                  /\ ret'.pid \notin Ids(lobbies'[ret'.code].players)
                  /\ leave_lobby(lobbies', ret'.code, ret'.pid) = Result(lobbies', "ok", <<>>) ]_vars

\* C5 witness: a leave of an identity that was not in the roster has
\* returned, with a second lobby alive.
C5_Witness ==
    /\ ret.op = "leave_lobby"
    /\ ret.res = "ok"
    /\ ~ret.had
    /\ Cardinality(DOMAIN lobbies) = 2

\* C6: every live code is 4 symbols of the 36-symbol alphabet and is the key
\* its lobby is stored under, the n live lobbies are the n lobbies ever
\* created, and a create_lobby step takes a code that was not live and
\* leaves every lobby that was there as it was.
C6_CodesWellFormed ==
    /\ Cardinality(AlphabetSet) = 36
    /\ \A c \in DOMAIN lobbies :
          /\ Len(c) = 4
          /\ \A k \in 1..Len(c) : c[k] \in AlphabetSet
          /\ lobbies[c].code = c
    /\ {lobbies[c].id : c \in DOMAIN lobbies} = 1..Cardinality(DOMAIN lobbies)

C6_CodesUnique ==
    /\ []C6_CodesWellFormed
    /\ [][ CallStep("create_lobby") =>
              /\ ret'.code \notin DOMAIN lobbies
              /\ DOMAIN lobbies' = DOMAIN lobbies \cup {ret'.code}
              /\ \A c \in DOMAIN lobbies : lobbies'[c] = lobbies[c] ]_vars

\* C6 witness: a create_lobby has returned while another lobby, which a
\* guest has joined, is alive.
C6_Witness ==
    /\ ret.op = "create_lobby"
    /\ \E c \in DOMAIN lobbies : c # ret.code /\ Len(Roster(c)) = 2

---------------------------------------------------------------------------
(* Claims about hit resolution                                             *)

\* The roster entries the reference rule lets through: not the shooter, the
\* explicit target if one is given, within range, within 18 degrees.
Qualifying(sh) ==
    {i \in 1..Len(sh.players) :
        LET q == sh.players[i]
        IN  /\ q.id # sh.shooter.id
            /\ (sh.target_id # NoTarget) => (q.id = sh.target_id)
            /\ haversine_m(sh.shooter.lat, sh.shooter.lon, q.lat, q.lon) <= sh.range_m
            /\ heading_delta(sh.heading,
                             bearing_deg(sh.shooter.lat, sh.shooter.lon, q.lat, q.lon))
                   <= 18000}

DistanceTo(sh, i) ==
    haversine_m(sh.shooter.lat, sh.shooter.lon, sh.players[i].lat, sh.players[i].lon)

\* C7: _resolve_hit returns no hit iff no roster entry qualifies, and
\* otherwise the id and distance of a qualifying entry of minimum distance;
\* so the shooter is never hit, and an explicit target is hit only if it is
\* in range and in angle.
C7_HitIsNearestQualifying ==
    (shot.pc = "done") =>
        LET Q == Qualifying(shot)
        IN  /\ (shot.hit = None) <=> (Q = {})
            /\ (shot.hit # None) =>
                  /\ \E i \in Q :
                        /\ shot.players[i].id = shot.hit.id
                        /\ DistanceTo(shot, i) = shot.hit.distance
                  /\ \A j \in Q : shot.hit.distance <= DistanceTo(shot, j)
                  /\ shot.hit.id # shot.shooter.id
                  /\ (shot.target_id # NoTarget) => (shot.hit.id = shot.target_id)

\* C7 witness: no target given, two entries qualify at different distances,
\* the first of them in roster order is the farther one, and the nearer one
\* is hit.
C7_Witness ==
    /\ shot.pc = "done"
    /\ shot.target_id = NoTarget
    /\ shot.hit # None
    /\ \E i, j \in Qualifying(shot) :
          /\ i < j
          /\ DistanceTo(shot, j) < DistanceTo(shot, i)
          /\ shot.hit.id = shot.players[j].id


---------------------------------------------------------------------------
(* Claims about the websocket handlers                                     *)

\* The sockets registered in a room, in the registry's order.
RoomSockets(code) == [i \in 1..Len(Room(reg, code)) |-> Room(reg, code)[i].sock]

\* How many times socket s has been sent an event of this type that
\* connection c's handler originated.
SentCount(s, type, c) ==
    Cardinality({i \in 1..Len(outbox[s]) :
                    outbox[s][i].event.type = type /\ outbox[s][i].event.by = c})

\* Connection c's handler takes a presence frame of the right shape off its
\* socket in this step.
PresenceFrame(c) ==
    /\ conn[c].pc = "recv"
    /\ conn'[c].n = conn[c].n + 1
    /\ conn'[c].msg.type = "presence"
    /\ conn'[c].msg.valid

\* What handling that frame amounts to, up to the first send.
PresenceHandled(c) ==
    LET me == conn'[c]
        m == me.msg
        code == conn[c].code
    IN  /\ outbox' = outbox
        /\ reg' = reg
        /\ IF code \in DOMAIN lobbies
           THEN /\ HasKey(lobbies'[code].players, m.pid)
                /\ LET snap == to_state(Entry(lobbies'[code].players, m.pid))
                   IN  /\ snap.lat = m.p.lat /\ snap.lon = m.p.lon
                       /\ snap.heading = m.p.heading
                       /\ snap.last_seen = now
                       /\ IF RoomSockets(code) = <<>>
                          THEN me.pc = "recv" /\ me.out = NoEvent
                          ELSE /\ me.pc = "bcast_send"
                               /\ me.out = Event("presence", c, m.pid, "", <<snap>>, 0, 0)
                               /\ me.pending = RoomSockets(code)
           ELSE /\ lobbies' = lobbies
                /\ me.pc = "recv"
                /\ me.out = NoEvent

\* Connection c's handler performs one send of a broadcast in this step.
BroadcastStep(c) == conn[c].pc = "bcast_send" /\ conn'[c] # conn[c]

\* No other connection carries c's (code, player id), so nothing can take c's
\* place in the registry.
SoleIdentity(c) ==
    \A d \in DOMAIN conn :
        d # c => (conn[d].code # conn[c].code \/ conn[d].pid # conn[c].pid)

\* C8: a presence frame of the right shape is written into the lobby and,
\* when upsert_presence returned a snapshot, that snapshot is broadcast as a
\* presence event with no exclusion: every socket registered in the room,
\* the sender's own included, is sent it, once per frame, and the sender's
\* own registered socket has been sent it by the time the frame is done.
\* When upsert_presence returned None nothing is broadcast and no error is
\* sent.
C8_PresenceBroadcastToAll ==
    /\ [][ \A c \in DOMAIN conn : PresenceFrame(c) => PresenceHandled(c) ]_vars
    /\ [][ \A c \in DOMAIN conn : BroadcastStep(c) =>
              LET to == Head(conn[c].pending)
              IN  /\ outbox' = [outbox EXCEPT ![to] =
                                   Append(@, Sent(conn[c].out, alive[to], conn[c].n))]
                  /\ \/ conn'[c].pc = "bcast_send"
                        /\ conn'[c].pending = Tail(conn[c].pending)
                        /\ conn'[c].out = conn[c].out
                     \/ Tail(conn[c].pending) = <<>> ]_vars
    /\ [](\A c \in DOMAIN conn :
            /\ \A s \in DOMAIN outbox : SentCount(s, "presence", c) <= conn[c].n
            /\ ( /\ conn[c].pc = "recv"
                 /\ conn[c].msg.type = "presence"
                 /\ conn[c].msg.valid
                 /\ SoleIdentity(c) ) => SentCount(c, "presence", c) >= 1)

\* C8 witness: a connection has finished a presence frame, and both its own
\* socket and the other connection's open socket were sent the event.
C8_Witness ==
    \E c \in DOMAIN conn, d \in DOMAIN conn :
        /\ c # d
        /\ conn[c].pc = "recv" /\ conn[c].msg.type = "presence" /\ conn[c].msg.valid
        /\ SentCount(c, "presence", c) = 1
        /\ \E i \in 1..Len(outbox[d]) :
              /\ outbox[d][i].event.type = "presence"
              /\ outbox[d][i].event.by = c
              /\ outbox[d][i].ok

\* Connection c was accepted with a player id that is no UUID or a code of
\* no lobby.
FailedHandshake(c) ==
    /\ conn[c].pc # "new"
    /\ (conn[c].pid = BadId \/ conn[c].code \notin DOMAIN lobbies)

ExpectedError(c) ==
    ErrorEvent(c, IF conn[c].pid = BadId THEN "bad_player_id" ELSE "lobby_not_found")

\* C9: a connection whose player id fails to parse or whose lobby code is
\* unknown is sent exactly one error event (bad_player_id or
\* lobby_not_found) on its own socket and is closed; it never reads a frame,
\* is never registered, no event it originated reaches another socket, and
\* its handler leaves the store and the registry as they were.
C9_HandshakeFailureClosesUnregistered ==
    /\ [](\A c \in DOMAIN conn : FailedHandshake(c) =>
            /\ conn[c].pc \in {"send_error", "close", "closed"}
            /\ conn[c].n = 0
            /\ conn[c].pc = "send_error" =>
                  (outbox[c] = <<>> /\ conn[c].out = ExpectedError(c))
            /\ conn[c].pc \in {"close", "closed"} =>
                  /\ Len(outbox[c]) = 1
                  /\ outbox[c][1].event = ExpectedError(c)
                  /\ conn[c].pc = "close" => outbox[c][1].ok
            /\ \A code \in DOMAIN reg : \A i \in 1..Len(reg[code]) : reg[code][i].sock # c
            /\ \A s \in DOMAIN outbox : \A i \in 1..Len(outbox[s]) :
                  outbox[s][i].event.by = c => s = c)
    /\ [][ \A c \in DOMAIN conn :
              (conn'[c] # conn[c] /\ FailedHandshake(c)') =>
                  (lobbies' = lobbies /\ reg' = reg) ]_vars

\* C9 witness: one connection was closed after bad_player_id and another
\* after lobby_not_found, each having been sent its error while open.
C9_Witness ==
    \E c \in DOMAIN conn, d \in DOMAIN conn :
        /\ conn[c].pc = "closed" /\ conn[c].pid = BadId
        /\ Len(outbox[c]) = 1 /\ outbox[c][1].ok
        /\ conn[d].pc = "closed" /\ conn[d].pid # BadId
        /\ conn[d].code \notin DOMAIN lobbies
        /\ Len(outbox[d]) = 1 /\ outbox[d][1].ok

\* C10: on admission the connection is registered, then join is broadcast to
\* every other registered socket and not to the joining identity, then the
\* state snapshot goes to the newly joined connection only, whatever other
\* admissions and closures interleave.
C10_StateOnlyToTheJoiner ==
    /\ \A s \in DOMAIN outbox : \A i \in 1..Len(outbox[s]) :
          LET ev == outbox[s][i].event
          IN  /\ ev.type = "state" => ev.by = s
              /\ ev.type = "join" => ev.by # s
    /\ \A c \in DOMAIN conn :
          (conn[c].pc = "bcast_send" /\ conn[c].out.type = "join") =>
              /\ \A s \in DOMAIN outbox : SentCount(s, "state", c) = 0
              /\ \A i \in 1..Len(conn[c].pending) : conn[c].pending[i] # c


\* Connection c's handler takes a shot frame of the right shape off its
\* socket in this step.
ShotFrame(c) ==
    /\ conn[c].pc = "recv"
    /\ conn'[c].n = conn[c].n + 1
    /\ conn'[c].msg.type = "shot"
    /\ conn'[c].msg.valid

\* What handling that frame amounts to, up to the first send; `unicast` is
\* where the shooter_not_found error is to go.
ShotHandled(c, unicast) ==
    LET me == conn'[c]
        m == me.msg
        code == conn[c].code
        roster == prune_stale_locked(lobbies[code].players, now)
    IN  /\ outbox' = outbox
        /\ reg' = reg
        /\ lobbies' = WithPlayers(lobbies, code, roster)
        /\ IF ~HasKey(roster, m.pid)
           THEN /\ me.hit = None
                /\ IF unicast = <<>>
                   THEN me.pc = "recv" /\ me.out = NoEvent
                   ELSE /\ me.pc = "sendto_send"
                        /\ me.out = ErrorEvent(c, "shooter_not_found")
                        /\ me.pending = unicast
           ELSE LET hit == resolve_hit(to_state(Entry(roster, m.pid)),
                                       [i \in 1..Len(roster) |-> to_state(roster[i])],
                                       m.heading, m.range_m, m.target_id)
                IN  IF RoomSockets(code) = <<>>
                    THEN me.pc = "recv" /\ me.out = NoEvent
                    ELSE /\ me.pc = "bcast_send"
                         /\ me.out = Event("shot", c, m.pid, "", <<>>, 0, 0)
                         /\ me.pending = RoomSockets(code)
                         /\ me.hit = hit

\* Connection c's handler performs the last send of its shot broadcast in
\* this step.
ShotBroadcastEnds(c) ==
    /\ conn[c].pc = "bcast_send"
    /\ conn[c].out.type = "shot"
    /\ Tail(conn[c].pending) = <<>>
    /\ conn'[c] # conn[c]

\* The hit broadcast follows iff _resolve_hit returned a target.
HitFollows(c) ==
    IF conn[c].hit = None \/ RoomSockets(conn[c].code) = <<>>
    THEN conn'[c].pc = "recv" /\ conn'[c].out = NoEvent
    ELSE /\ conn'[c].pc = "bcast_send"
         /\ conn'[c].out = Event("hit", c, conn[c].msg.pid, "", <<>>, conn[c].hit.id,
                                 conn[c].hit.distance)
         /\ conn'[c].pending = RoomSockets(conn[c].code)

\* No hit event of a frame has been sent while the shot event of that frame
\* is still being broadcast, and hit events come from shot frames only.
HitAfterShot ==
    \A s \in DOMAIN outbox : \A i \in 1..Len(outbox[s]) :
        LET e == outbox[s][i]
        IN  e.event.type = "hit" =>
                ~(conn[e.event.by].out.type = "shot" /\ conn[e.event.by].n = e.seq)

\* C11 (as the spec states it): a shot frame whose from_id is not in the
\* swept roster produces only a shooter_not_found error sent to the
\* connection that sent the frame, and no shot or hit broadcast; otherwise
\* shot is broadcast, and hit is broadcast after it iff a target was
\* resolved; the roster gains and changes no entry.
C11_ShotHandling ==
    /\ [][ \A c \in DOMAIN conn : ShotFrame(c) =>
              ShotHandled(c, IF send_to_socket(reg, conn[c].code, conn[c].pid) = <<>>
                             THEN <<>> ELSE <<c>>) ]_vars
    /\ [][ \A c \in DOMAIN conn : ShotBroadcastEnds(c) => HitFollows(c) ]_vars
    /\ []HitAfterShot

\* The same with the error going where send_to takes it: to the socket
\* registered under the connection's (code, player id).
ShotHandlingByIdentity ==
    /\ [][ \A c \in DOMAIN conn : ShotFrame(c) =>
              ShotHandled(c, send_to_socket(reg, conn[c].code, conn[c].pid)) ]_vars
    /\ [][ \A c \in DOMAIN conn : ShotBroadcastEnds(c) => HitFollows(c) ]_vars
    /\ []HitAfterShot


\* The sockets registered in a room of registry R, in the registry's order.
SocketsOf(R, code) == [i \in 1..Len(Room(R, code)) |-> Room(R, code)[i].sock]

\* Socket s is registered somewhere in registry R.
Registered(R, s) ==
    \E code \in DOMAIN R : \E i \in 1..Len(R[code]) : R[code][i].sock = s

\* Connection c's handler, waiting for a frame, finds that its peer has
\* closed the socket.
DisconnectStep(c) == conn[c].pc = "recv" /\ ~alive[c] /\ conn'[c] # conn[c]

\* C12: on a peer close the handler removes the connection from the
\* registry and its identity from the roster, then broadcasts leave, naming
\* that identity, to the sockets still registered in the lobby, the closing
\* connection's own socket never among them, and ends closed.
C12_PeerCloseLeaves ==
    /\ [][ \A c \in DOMAIN conn : DisconnectStep(c) =>
              LET code == conn[c].code
                  pid == conn[c].pid
              IN  /\ reg' = fabric_disconnect(reg, code, pid)
                  /\ ~Registered(reg', c)
                  /\ ~HasKey(lobbies'[code].players, pid)
                  /\ lobbies' = WithPlayers(lobbies, code,
                                            dict_pop(lobbies[code].players, pid))
                  /\ outbox' = outbox
                  /\ IF SocketsOf(reg', code) = <<>>
                     THEN conn'[c].pc = "closed"
                     ELSE /\ conn'[c].pc = "bcast_send"
                          /\ conn'[c].out = Event("leave", c, pid, "", <<>>, 0, 0)
                          /\ conn'[c].pending = SocketsOf(reg', code)
                          /\ \A i \in 1..Len(conn'[c].pending) : conn'[c].pending[i] # c
         ]_vars
    /\ [][ \A c \in DOMAIN conn :
              ( /\ BroadcastStep(c)
                /\ conn[c].out.type = "leave"
                /\ Tail(conn[c].pending) = <<>> ) => conn'[c].pc = "closed" ]_vars
    /\ [](\A c \in DOMAIN conn :
            /\ conn[c].out.type = "leave" => ~Registered(reg, c)
            /\ SentCount(c, "leave", c) = 0)

\* C12 witness: a connection is closed after its peer closed it, its
\* identity is off the roster, and the other connection, still in its
\* message loop, was sent the leave event.
C12_Witness ==
    \E c \in DOMAIN conn, d \in DOMAIN conn :
        /\ c # d
        /\ conn[c].pc = "closed"
        /\ conn[d].pc = "recv"
        /\ conn[c].code \in DOMAIN lobbies
        /\ ~HasKey(lobbies[conn[c].code].players, conn[c].pid)
        /\ \E i \in 1..Len(outbox[d]) :
              /\ outbox[d][i].event = Event("leave", c, conn[c].pid, "", <<>>, 0, 0)
              /\ outbox[d][i].ok


\* Connection c's handler, waiting for a frame on a socket its peer has not
\* closed, ends in this step: receive_json or the handling of the frame
\* raised something other than WebSocketDisconnect.
FaultStep(c) == conn[c].pc = "recv" /\ alive[c] /\ conn'[c].pc = "closed"

\* C13: a handler that ends on a fault other than a peer close removes the
\* registration of its (code, player id) and does nothing else: it sends no
\* leave and no error event, and the store, its participant's roster entry
\* included, is as it was.
C13_FaultOnlyUnregisters ==
    /\ [][ \A c \in DOMAIN conn : FaultStep(c) =>
              /\ reg' = fabric_disconnect(reg, conn[c].code, conn[c].pid)
              /\ lobbies' = lobbies
              /\ outbox' = outbox
              /\ conn'[c].out = NoEvent
              /\ conn'[c].pending = <<>> ]_vars
    /\ [][ \A c \in DOMAIN conn : conn[c].pc = "closed" =>
              /\ conn'[c] = conn[c]
              /\ \A s \in DOMAIN outbox :
                    Len(outbox'[s]) > Len(outbox[s]) =>
                        outbox'[s][Len(outbox'[s])].event.by # c ]_vars

\* C13 witness: a connection that was admitted while the other was
\* registered (the other was sent its join) has ended without any leave
\* being sent to the other, which is still in its message loop; its
\* participant is still on the roster.
C13_Witness ==
    \E c \in DOMAIN conn, d \in DOMAIN conn :
        /\ c # d
        /\ conn[c].pc = "closed"
        /\ conn[d].pc = "recv"
        /\ SentCount(d, "join", c) = 1
        /\ SentCount(d, "leave", c) = 0
        /\ conn[c].code \in DOMAIN lobbies
        /\ HasKey(lobbies[conn[c].code].players, conn[c].pid)
        /\ ~Registered(reg, c)


\* Connection c's handler takes a frame off its socket in this step.
FrameStep(c) == conn[c].pc = "recv" /\ conn'[c].n = conn[c].n + 1

\* C14 (as the spec states it): a frame of an unknown type, a shot whose
\* shooter is absent, or a presence or shot payload of the wrong shape fails
\* only that frame: the handler stays in its message loop, registered as it
\* was; only a transport fault or a peer close ends it.
C14_FrameFailuresRecovered ==
    [][ \A c \in DOMAIN conn : FrameStep(c) =>
           /\ conn'[c].pc \in {"recv", "bcast_send", "sendto_send"}
           /\ reg' = reg ]_vars


\* Connection c's handler takes the snapshot of a broadcast in this step and
\* stands at its first send.
BroadcastStarts(c) ==
    /\ conn'[c].pc = "bcast_send"
    /\ conn[c].pc # "bcast_send" \/ conn'[c].out # conn[c].out

\* The sockets a broadcast of connection c's `out` is to reach: those of the
\* room, without the joining identity's when it is a join.
SnapshotFor(R, me) ==
    LET kept == SelectSeq(Room(R, me.code),
                          LAMBDA e : ~(me.out.type = "join" /\ e.id = me.pid))
    IN  [i \in 1..Len(kept) |-> kept[i].sock]

\* Connection c's handler performs the send of a send_to in this step.
SendToStep(c) == conn[c].pc = "sendto_send" /\ conn'[c] # conn[c]

\* Connection c's handler takes a ping frame or one of an unknown type.
ReplyFrame(c) == FrameStep(c) /\ conn'[c].msg.type \in {"ping", "bogus"}

NoRepeat(seq) == \A i \in 1..Len(seq) : \A j \in 1..Len(seq) : seq[i] = seq[j] => i = j

\* C15: a broadcast sends once to every socket of its snapshot other than
\* the excluded identity's, whether or not the sends before it failed; a
\* failed send is not retried, does not end the calling handler and leaves
\* the failing socket registered.  send_to to an identity with no
\* registration sends nothing, and a failed send_to is swallowed too.
C15_BestEffortDelivery ==
    /\ [][ \A c \in DOMAIN conn : BroadcastStarts(c) =>
              conn'[c].pending = SnapshotFor(reg', conn'[c]) ]_vars
    /\ [][ \A c \in DOMAIN conn : BroadcastStep(c) =>
              LET to == Head(conn[c].pending)
              IN  /\ outbox' = [outbox EXCEPT ![to] =
                                   Append(@, Sent(conn[c].out, alive[to], conn[c].n))]
                  /\ reg' = reg
                  /\ lobbies' = lobbies
                  /\ IF Tail(conn[c].pending) # <<>>
                     THEN /\ conn'[c].pc = "bcast_send"
                          /\ conn'[c].out = conn[c].out
                          /\ conn'[c].pending = Tail(conn[c].pending)
                     ELSE \/ conn'[c].pc = "closed" /\ conn[c].after = "return"
                          \/ conn'[c].pc = "recv" /\ conn[c].after \in {"recv", "hit"}
                          \/ conn'[c].pc = "bcast_send" /\ conn[c].after = "hit"
                          \/ conn'[c].pc \in {"sendto_send", "recv"}
                             /\ conn[c].after = "list_state" ]_vars
    /\ [][ \A c \in DOMAIN conn : SendToStep(c) =>
              LET to == Head(conn[c].pending)
              IN  /\ outbox' = [outbox EXCEPT ![to] =
                                   Append(@, Sent(conn[c].out, alive[to], conn[c].n))]
                  /\ reg' = reg
                  /\ lobbies' = lobbies
                  /\ conn'[c].pc = "recv" ]_vars
    /\ [][ \A c \in DOMAIN conn :
              (ReplyFrame(c) /\ ~HasKey(Room(reg, conn[c].code), conn[c].pid)) =>
                  /\ outbox' = outbox
                  /\ reg' = reg
                  /\ conn'[c].pc = "recv" ]_vars
    /\ [](\A c \in DOMAIN conn :
            /\ NoRepeat(conn[c].pending)
            /\ conn[c].pc = "sendto_send" => Len(conn[c].pending) = 1
            /\ conn[c].pc = "bcast_send" => Len(conn[c].pending) >= 1)

\* C15 witness: a presence broadcast was sent to a socket that had been
\* closed, which failed, and then to the sender's own open socket; the
\* sender is back in its message loop and the failing socket is still
\* registered.
C15_Witness ==
    \E c \in DOMAIN conn, d \in DOMAIN conn :
        /\ c # d
        /\ conn[c].pc = "recv"
        /\ Registered(reg, d)
        /\ \E i \in 1..Len(outbox[d]) :
              /\ outbox[d][i].event.type = "presence"
              /\ outbox[d][i].event.by = c
              /\ ~outbox[d][i].ok
        /\ \E i \in 1..Len(outbox[c]) :
              /\ outbox[c][i].event.type = "presence"
              /\ outbox[c][i].event.by = c
              /\ outbox[c][i].ok
        /\ SocketsOf(reg, conn[c].code) = <<d, c>>


\* Connection c's handler is suspended in a send_json.
InSend(c) == conn[c].pc \in {"send_error", "bcast_send", "sendto_send"}

\* Nothing stands in the way of connection d's handler where it has to
\* enter a lock: to connect, to disconnect, to call the Store.
CanGoOn(d) == LocksFree(d)

\* C16: no handler is inside the Store lock or the ConnectionManager lock
\* while it is suspended in a send, so however long the send takes, every
\* other handler can connect, disconnect and call the Store.
C16_NoSendUnderLock ==
    \A c \in DOMAIN conn :
        /\ InSend(c) => conn[c].held = {}
        /\ InSend(c) => \A d \in DOMAIN conn : d # c => CanGoOn(d)

\* C16 witness: while a handler is suspended in a send of its presence
\* broadcast, another connection, absent from that broadcast's snapshot,
\* has connected, been sent the roster and reached its message loop.
C16_Witness ==
    \E c \in DOMAIN conn, d \in DOMAIN conn :
        /\ c # d
        /\ conn[c].pc = "bcast_send"
        /\ conn[c].out.type = "presence"
        /\ conn[d].pc = "recv"
        /\ Registered(reg, d)
        /\ SentCount(d, "presence", c) = 0
        /\ \A i \in 1..Len(conn[c].pending) : conn[c].pending[i] # d
        /\ SentCount(d, "state", d) = 1


\* Connection c is in its message loop, registered, with no roster entry
\* for its identity.
Zombie(c) ==
    /\ conn[c].pc = "recv"
    /\ Registered(reg, c)
    /\ ~HasKey(lobbies[conn[c].code].players, conn[c].pid)

\* This step is connection c's handler registering.
ConnectStep(c) ==
    /\ conn[c].pc = "new"
    /\ conn'[c].pc \in {"bcast_send", "sendto_send", "recv"}
    /\ reg' = fabric_connect(reg, conn'[c].code, conn'[c].pid, c)

\* This step is connection c's handler ending its message loop and
\* unregistering its identity.
UnregisterStep(c) ==
    /\ conn[c].pc = "recv"
    /\ conn'[c].pc = "closed" \/ conn'[c].out.type = "leave"
    /\ reg' = fabric_disconnect(reg, conn[c].code, conn[c].pid)

\* The frame connection c takes in this step is one the message loop has a
\* branch for.
HandledFrame(c) ==
    FrameStep(c) /\ (conn'[c].msg.type \in {"presence", "shot"} => conn'[c].msg.valid)

\* C17: the registry changes only where a handler connects or disconnects,
\* never through the Store: the staleness sweep takes entries off the
\* roster and leaves the registry alone.  A registered connection whose
\* identity has no roster entry stays registered, is in the snapshot of the
\* lobby's broadcasts, and has its frames handled by the usual branches
\* without being closed.
C17_ZombieStaysRegistered ==
    /\ [][ reg' # reg => \E c \in DOMAIN conn : ConnectStep(c) \/ UnregisterStep(c) ]_vars
    /\ [][ \A c \in DOMAIN conn : (Zombie(c) /\ HandledFrame(c)) =>
              /\ conn'[c].pc \in {"recv", "bcast_send", "sendto_send"}
              /\ reg' = reg
              /\ conn'[c].msg.type = "presence" =>
                    HasKey(lobbies'[conn[c].code].players, conn'[c].msg.pid)
              /\ (conn'[c].msg.type = "shot"
                  /\ ~HasKey(prune_stale_locked(lobbies[conn[c].code].players, now),
                             conn'[c].msg.pid)) =>
                    conn'[c].out = ErrorEvent(c, "shooter_not_found") ]_vars
    /\ [][ \A c \in DOMAIN conn, d \in DOMAIN conn :
              ( /\ BroadcastStarts(d)
                /\ Registered(reg', c)
                /\ conn[c].code = conn'[d].code
                /\ ~HasKey(lobbies'[conn[c].code].players, conn[c].pid)
                /\ ~(conn'[d].out.type = "join" /\ conn'[d].pid = conn[c].pid) ) =>
                  \E i \in 1..Len(conn'[d].pending) : conn'[d].pending[i] = c ]_vars

\* C17 witness: the host's roster entry was swept (nobody left the lobby:
\* both connections are in their message loops), the host's connection is
\* still registered and was sent, on its open socket, the presence event the
\* other connection caused after the sweep.
C17_Witness ==
    \E c \in DOMAIN conn, d \in DOMAIN conn :
        /\ c # d
        /\ Zombie(c)
        /\ conn[c].pid = 1
        /\ conn[d].pc = "recv" /\ conn[d].pid = 2
        /\ now > STALE_AFTER
        /\ \E i \in 1..Len(outbox[c]) :
              /\ outbox[c][i].event.type = "presence"
              /\ outbox[c][i].event.by = d
              /\ outbox[c][i].ok
              /\ outbox[c][i].event.players[1].last_seen > STALE_AFTER


\* The entry this step appends to socket s's log, if it appends one.
Appends(s) == Len(outbox'[s]) > Len(outbox[s])
Appended(s) == outbox'[s][Len(outbox'[s])]

\* In socket s's log, what connection c's handler sent for an earlier frame
\* comes before what it sent for a later one.
InFrameOrder(s) ==
    \A i \in 1..Len(outbox[s]) : \A j \in 1..Len(outbox[s]) :
        (i < j /\ outbox[s][i].event.by = outbox[s][j].event.by) =>
            outbox[s][i].seq <= outbox[s][j].seq

\* C18: a handler takes its next frame only when everything the frame
\* before caused is over: it is back at receive_json with no send left.
\* Every send is for the frame the handler has in hand, and the Store is
\* written only in the step that takes a frame, admits or disconnects; so
\* all writes and sends of one frame come before those of the next,
\* whatever the other connections do in between.
C18_FramesInArrivalOrder ==
    /\ [][ \A c \in DOMAIN conn : conn'[c].n # conn[c].n =>
              /\ conn'[c].n = conn[c].n + 1
              /\ conn[c].pc = "recv"
              /\ conn[c].pending = <<>>
              /\ conn[c].out = NoEvent
              /\ conn[c].hit = None ]_vars
    /\ [][ \A s \in DOMAIN outbox : Appends(s) =>
              LET by == Appended(s).event.by
              IN  /\ Appended(s).seq = conn[by].n
                  /\ conn'[by].n = conn[by].n
                  /\ conn[by].pc \in {"send_error", "bcast_send", "sendto_send"}
                  /\ lobbies' = lobbies ]_vars
    /\ [][ lobbies' # lobbies => \E c \in DOMAIN conn :
              FrameStep(c) \/ DisconnectStep(c) \/ conn[c].pc = "new" ]_vars
    /\ [](\A s \in DOMAIN outbox :
            /\ InFrameOrder(s)
            /\ \A i \in 1..Len(outbox[s]) : outbox[s][i].seq <= conn[outbox[s][i].event.by].n)

\* C18 witness: a connection has read two frames, a shot that hit and then
\* a presence update, and the other connection's socket was sent the hit of
\* the first before the presence event of the second.
C18_Witness ==
    \E c \in DOMAIN conn, d \in DOMAIN conn :
        /\ c # d
        /\ conn[c].n = 2
        /\ conn[c].pc = "recv"
        /\ \E i \in 1..Len(outbox[d]) : \E j \in 1..Len(outbox[d]) :
              /\ i < j
              /\ outbox[d][i].event.by = c /\ outbox[d][i].event.type = "hit"
              /\ outbox[d][i].seq = 1
              /\ outbox[d][j].event.by = c /\ outbox[d][j].event.type = "presence"
              /\ outbox[d][j].seq = 2


\* Connection d is in its message loop or sending, and holds the
\* registration of its (code, player id).
HoldsRegistration(d) ==
    /\ conn[d].pc \in {"recv", "bcast_send", "sendto_send"}
    /\ conn[d].out.type # "leave"
    /\ send_to_socket(reg, conn[d].code, conn[d].pid) = <<d>>

\* Connection c's handler ends its message loop in this step.
EndsLoop(c) == DisconnectStep(c) \/ FaultStep(c)

\* C19 (as the spec states it): a connection that is in its message loop
\* and was the latest to register for its (code, player id) stays
\* registered, and its participant stays on the roster, when another
\* connection, an earlier one of the same identity, ends.
C19_ReconnectSafe ==
    [][ \A c \in DOMAIN conn, d \in DOMAIN conn :
           (c # d /\ EndsLoop(c) /\ HoldsRegistration(d)) =>
               /\ send_to_socket(reg', conn[d].code, conn[d].pid) = <<d>>
               /\ HasKey(lobbies[conn[d].code].players, conn[d].pid) =>
                     HasKey(lobbies'[conn[d].code].players, conn[d].pid) ]_vars

\* The roster entries of a lobby that are within the staleness window.
Fresh(code) ==
    {i \in 1..Len(lobbies[code].players) : ~Stale(lobbies[code].players[i], now)}

\* C20 (as the spec states it): join_lobby on a known lobby is rejected
\* with lobby_full only if at least 16 of its participants were updated
\* within the last 10 seconds.
C20_StaleDoNotOccupyCapacity ==
    [][ (CallStep("join_lobby") /\ ret'.res = "lobby_full") =>
           Cardinality(Fresh(ret'.code)) >= MAX_PLAYERS ]_vars

\* This step is a call of a LobbyStore method by a caller other than the
\* websocket handlers.
StoreStep == conn' = conn /\ now' = now /\ ret'.op # "none"

\* This step is one of connection c's handler.
HandlerStep(c) == conn'[c] # conn[c]

\* This step has a send_json call on socket s: the last entry of its log.
SendOn(s) == Len(outbox'[s]) = Len(outbox[s]) + 1

LastSent(s) == outbox'[s][Len(outbox'[s])]

\* Connection d's handler starts a send_to in this step.
SendToStarts(d) ==
    /\ conn'[d].pc = "sendto_send"
    /\ conn[d].pc # "sendto_send" \/ conn'[d].out # conn[d].out

\* C21: lobbies are isolated.  A Store call on one lobby, and a handler
\* step of a connection of one lobby, leave every other lobby's record as it
\* was; a socket is registered under the lobby of its connection only; the
\* sockets a broadcast or a send_to of a connection is to reach, and every
\* socket an event is sent on, belong to connections of the sender's lobby,
\* also when the same identity is registered in two lobbies.
C21_LobbiesIsolated ==
    /\ [][ \A B \in DOMAIN lobbies :
              /\ B \in DOMAIN lobbies'
              /\ (StoreStep /\ ret'.code # B) => lobbies'[B] = lobbies[B]
              /\ \A c \in DOMAIN conn :
                    (HandlerStep(c) /\ conn'[c].code # B) => lobbies'[B] = lobbies[B] ]_vars
    /\ [][ \A code \in DOMAIN reg' : \A i \in 1..Len(reg'[code]) :
              conn'[reg'[code][i].sock].code = code ]_vars
    /\ [][ \A d \in DOMAIN conn :
              (BroadcastStarts(d) \/ SendToStarts(d)) =>
                  \A i \in 1..Len(conn'[d].pending) :
                      /\ conn'[conn'[d].pending[i]].code = conn'[d].code
                      /\ \E j \in 1..Len(Room(reg', conn'[d].code)) :
                            Room(reg', conn'[d].code)[j].sock = conn'[d].pending[i] ]_vars
    /\ [][ \A s \in DOMAIN outbox :
              SendOn(s) => conn'[LastSent(s).event.by].code = conn'[s].code ]_vars

\* C21 witness: two connections of identity 1, one in each lobby, are in
\* their message loops; the first one's presence frame was broadcast in its
\* lobby and sent on its own socket only, and put identity 1 back on its
\* lobby's roster, while the other lobby's roster, swept at the admission of
\* the second connection, still lacks it.
C21_Witness ==
    \E c \in DOMAIN conn, d \in DOMAIN conn :
        /\ conn[c].pc = "recv" /\ conn[d].pc = "recv"
        /\ conn[c].pid = conn[d].pid
        /\ conn[c].code = WsCode /\ conn[d].code = IsoCode
        /\ Registered(reg, c) /\ Registered(reg, d)
        /\ SentCount(c, "presence", c) = 1
        /\ SentCount(d, "presence", c) = 0
        /\ SentCount(d, "state", d) = 1
        /\ HasKey(lobbies[WsCode].players, conn[c].pid)
        /\ ~HasKey(lobbies[IsoCode].players, conn[d].pid)

===========================================================================
